---- MODULE Spec2Model ----
(***************************************************************************)
(* Bookworm storefront: the cart store (CartContext.tsx) and the checkout  *)
(* handler of the cart page (CartPage, handlePlaceOrder).                  *)
(*                                                                         *)
(* Money is counted in cents.  An optional field (discountPrice?: number,  *)
(* discount_price: string | null) is a sequence of length 0 (undefined /   *)
(* null) or 1 (the value).  authorName and imageUrl of a cart item are     *)
(* carried by the code but read by no operation modelled here, so they are *)
(* left out of the item record.                                            *)
(***************************************************************************)
EXTENDS Integers, Sequences, FiniteSets, TLC

VARIABLES
    cart,                  \* CartProvider: useReducer state {items, totalItems, totalPrice}
    user,                  \* AuthProvider: user !== null
    token,                 \* AuthProvider: token !== null
    mounted,               \* a CartPage instance is on screen
    pageGen,               \* which CartPage instance (counts mounts)
    isPlacingOrder,        \* CartPage useState
    isCheckingCart,        \* CartPage useState
    orderError,            \* CartPage useState (<<>> = null)
    showSuccessDialog,     \* CartPage useState
    showUpdateDialog,      \* CartPage useState
    updateDialogMessages,  \* CartPage useState
    isSignInModalOpen,     \* CartPage useState
    attempts,              \* the invocations of handlePlaceOrder: their closure
                           \* (items), promises (launched, results) and locals
                           \* (outcome) and the error their catch block caught,
                           \* plus the order of arrival of the results and
                           \* whether the cart had been edited at the join
    orders,                \* the createOrder requests sent so far: which
                           \* invocation sent them, and their {book_id, quantity} list
    storage,               \* localStorage['bookworm-cart'] (<<>> = no such key)
    app                    \* the React tree under CartProvider: "down" (not
                           \* loaded), "up", "corrupt" (the store holds a value
                           \* that is no CartState) or "crashed" (an exception
                           \* escaped a render or an effect and the tree is gone)

storeVars == <<cart>>
authVars == <<user, token>>
pageVars == <<mounted, pageGen, isPlacingOrder, isCheckingCart, orderError,
              showSuccessDialog, showUpdateDialog, updateDialogMessages,
              isSignInModalOpen>>
flowVars == <<attempts, orders>>
persistVars == <<storage, app>>
vars == <<cart, user, token, mounted, pageGen, isPlacingOrder, isCheckingCart,
          orderError, showSuccessDialog, showUpdateDialog, updateDialogMessages,
          isSignInModalOpen, attempts, orders, storage, app>>

(***************************************************************************)
(* Bounds of the model                                                     *)
(***************************************************************************)
MaxQty == 10          \* a line's quantity is explored up to this value
MaxAddQty == 5        \* addItem is called with quantities 1..MaxAddQty
MaxUpdQty == 10       \* updateQuantity is called with quantities -NegUpdQty..MaxUpdQty
NegUpdQty == 5
MaxAttempts == 2      \* invocations of handlePlaceOrder explored

\* Quantities the pages put into a line while a checkout is explored, and the
\* CartPage instances that are mounted.
FlowQuantities == 1..2
PageInstances == {1}

\* The per-line limit the pages enforce.
MAX_LINE_QTY == 8

Undefined == <<>>
Some(v) == <<v>>

ItemIds == {1, 2}

\* Omit<CartItem, 'quantity'> values handed to addItem.
LineCandidates ==
    [id : ItemIds, title : {"A"}, price : {1000}, discountPrice : {Undefined, Some(800)}]

(***************************************************************************)
(* Cart store                                                              *)
(***************************************************************************)
initialState == [items |-> <<>>, totalItems |-> 0, totalPrice |-> 0]

\* item.discountPrice ?? item.price
EffectivePrice(item) ==
    IF item.discountPrice = Undefined THEN item.price ELSE item.discountPrice[1]

\* items.reduce((total, item) => total + item.quantity, 0)
RECURSIVE ReduceQuantity(_)
ReduceQuantity(items) ==
    IF items = <<>> THEN 0
    ELSE ReduceQuantity(SubSeq(items, 1, Len(items) - 1)) + items[Len(items)].quantity

\* items.reduce((total, item) => total + (item.discountPrice ?? item.price) * item.quantity, 0)
RECURSIVE ReducePrice(_)
ReducePrice(items) ==
    IF items = <<>> THEN 0
    ELSE ReducePrice(SubSeq(items, 1, Len(items) - 1))
            + EffectivePrice(items[Len(items)]) * items[Len(items)].quantity

calculateTotals(items) ==
    [totalItems |-> ReduceQuantity(items), totalPrice |-> ReducePrice(items)]

WithTotals(items) ==
    [items |-> items,
     totalItems |-> calculateTotals(items).totalItems,
     totalPrice |-> calculateTotals(items).totalPrice]

\* Array.prototype.findIndex on item.id === id; 0 stands for the code's -1.
findIndex(items, id) ==
    IF \E i \in 1..Len(items) : items[i].id = id
    THEN CHOOSE i \in 1..Len(items) :
            /\ items[i].id = id
            /\ \A j \in 1..(i - 1) : items[j].id # id
    ELSE 0

\* Array.prototype.filter keeping item.id !== id
RECURSIVE FilterOut(_, _)
FilterOut(items, id) ==
    IF items = <<>> THEN <<>>
    ELSE IF Head(items).id = id THEN FilterOut(Tail(items), id)
    ELSE <<Head(items)>> \o FilterOut(Tail(items), id)

\* Variant: the existing line is not looked for.
ReduceAddItem_AlwaysAppend(state, payload) ==
    WithTotals(Append(state.items, payload))

\* Variant: the line that receives more copies moves to the end of the list.
ReduceAddItem_MoveToEnd(state, payload) ==
    LET existingItemIndex == findIndex(state.items, payload.id)
    IN  IF existingItemIndex >= 1
        THEN WithTotals(Append(FilterOut(state.items, payload.id),
                               [state.items[existingItemIndex] EXCEPT
                                   !.quantity = @ + payload.quantity]))
        ELSE WithTotals(Append(state.items, payload))

ReduceAddItem(state, payload) ==
    LET existingItemIndex == findIndex(state.items, payload.id)
        updatedItems ==
            IF existingItemIndex >= 1
            THEN [state.items EXCEPT ![existingItemIndex].quantity = @ + payload.quantity]
            ELSE Append(state.items, payload)
    IN  WithTotals(updatedItems)

\* Variant: the totals are carried over by ...state and not recomputed.
ReduceRemoveItem_StaleTotals(state, payload) ==
    [state EXCEPT !.items = FilterOut(state.items, payload.id)]

ReduceRemoveItem(state, payload) ==
    WithTotals(FilterOut(state.items, payload.id))

\* Variant: only a negative quantity removes the line; 0 is stored.
ReduceUpdateQuantity_ZeroStored(state, payload) ==
    IF payload.quantity < 0
    THEN ReduceRemoveItem(state, [id |-> payload.id])
    ELSE WithTotals([i \in 1..Len(state.items) |->
                        IF state.items[i].id = payload.id
                        THEN [state.items[i] EXCEPT !.quantity = payload.quantity]
                        ELSE state.items[i]])

ReduceUpdateQuantity(state, payload) ==
    IF payload.quantity <= 0
    THEN ReduceRemoveItem(state, [id |-> payload.id])
    ELSE WithTotals([i \in 1..Len(state.items) |->
                        IF state.items[i].id = payload.id
                        THEN [state.items[i] EXCEPT !.quantity = payload.quantity]
                        ELSE state.items[i]])

\* Variant: only the items are emptied; the totals come from ...state.
ReduceClearCart_KeepTotals(state) == [state EXCEPT !.items = <<>>]

ReduceClearCart(state) == initialState

cartReducer(state, action) ==
    CASE action.type = "ADD_ITEM" -> ReduceAddItem(state, action.payload)
      [] action.type = "REMOVE_ITEM" -> ReduceRemoveItem(state, action.payload)
      [] action.type = "UPDATE_QUANTITY" -> ReduceUpdateQuantity(state, action.payload)
      [] action.type = "CLEAR_CART" -> ReduceClearCart(state)
      [] OTHER -> state

\* Action creators of CartProvider: each dispatches one action.
addItem(item, quantity) ==
    cart' = cartReducer(cart,
              [type |-> "ADD_ITEM",
               payload |-> [id |-> item.id, title |-> item.title, price |-> item.price,
                            discountPrice |-> item.discountPrice, quantity |-> quantity]])

removeItem(id) ==
    cart' = cartReducer(cart, [type |-> "REMOVE_ITEM", payload |-> [id |-> id]])

updateQuantity(id, quantity) ==
    cart' = cartReducer(cart, [type |-> "UPDATE_QUANTITY",
                               payload |-> [id |-> id, quantity |-> quantity]])

clearCart ==
    cart' = cartReducer(cart, [type |-> "CLEAR_CART"])

getCartItem(id) ==
    IF findIndex(cart.items, id) = 0 THEN Undefined
    ELSE Some(cart.items[findIndex(cart.items, id)])

getItemQuantity(id) ==
    IF getCartItem(id) = Undefined THEN 0 ELSE getCartItem(id)[1].quantity

(***************************************************************************)
(* Persistence of the cart in localStorage                                 *)
(***************************************************************************)
\* Variant: JSON.stringify of an item without its discountPrice.
ItemJson_NoDiscount(item) ==
    [id |-> item.id, title |-> item.title, price |-> item.price,
     quantity |-> item.quantity]

\* JSON.stringify of an item: a key whose value is undefined is left out.
ItemJson(item) ==
    IF item.discountPrice = Undefined
    THEN [id |-> item.id, title |-> item.title, price |-> item.price,
          quantity |-> item.quantity]
    ELSE [id |-> item.id, title |-> item.title, price |-> item.price,
          discountPrice |-> item.discountPrice[1], quantity |-> item.quantity]

\* A stored string: the JSON text of a cart state, the JSON texts "null" and
\* "{}", a string that is not JSON, or the empty string.
StoredText(kind, value) == [kind |-> kind, value |-> value]

\* JSON.stringify(cart)
JSONstringify(state) ==
    StoredText("cart",
               Some([items |-> [i \in 1..Len(state.items) |-> ItemJson(state.items[i])],
                     totalItems |-> state.totalItems,
                     totalPrice |-> state.totalPrice]))

\* The item object JSON.parse builds: reading a key the text does not have
\* gives undefined.
ItemFromJson(o) ==
    [id |-> o.id, title |-> o.title, price |-> o.price,
     discountPrice |-> IF "discountPrice" \in DOMAIN o
                       THEN Some(o.discountPrice) ELSE Undefined,
     quantity |-> o.quantity]

\* JSON.parse(savedCart): throws on a string that is not JSON, and returns
\* whatever value the text denotes otherwise.
JSONparse(text) ==
    CASE text.kind = "cart" ->
            [threw |-> FALSE, isCartState |-> TRUE,
             state |-> [items |-> [i \in 1..Len(text.value[1].items) |->
                                      ItemFromJson(text.value[1].items[i])],
                        totalItems |-> text.value[1].totalItems,
                        totalPrice |-> text.value[1].totalPrice]]
      [] text.kind \in {"null", "emptyObject"} ->
            [threw |-> FALSE, isCartState |-> FALSE, state |-> initialState]
      [] OTHER ->
            [threw |-> TRUE, isCartState |-> FALSE, state |-> initialState]

\* loadCartFromLocalStorage: savedCart ? JSON.parse(savedCart) : initialState.
\* `state` is meaningful when the call returned a CartState.
loadCartFromLocalStorage ==
    IF storage = Undefined \/ storage[1].kind = "empty"
    THEN [threw |-> FALSE, isCartState |-> TRUE, state |-> initialState]
    ELSE JSONparse(storage[1])

\* saveCartToLocalStorage(cart)
saveCartToLocalStorage(state) == storage' = Some(JSONstringify(state))

\* Variant: the effect depends on the number of lines, not on the state.
SaveEffect_OnLengthChange ==
    /\ IF Len(cart'.items) # Len(cart.items)
       THEN saveCartToLocalStorage(cart')
       ELSE UNCHANGED storage
    /\ UNCHANGED app

\* useEffect(() => saveCartToLocalStorage(cart), [cart]): runs with the commit
\* of the render that follows a dispatch.
SaveEffect ==
    /\ saveCartToLocalStorage(cart')
    /\ UNCHANGED app

(***************************************************************************)
(* Initial state: the application has started on an empty storage (the     *)
(* effect of the first render has stored the empty cart), nobody is signed *)
(* in, no cart page is open.                                               *)
(***************************************************************************)
Init ==
    /\ cart = initialState
    /\ user = FALSE
    /\ token = FALSE
    /\ mounted = FALSE
    /\ pageGen = 0
    /\ isPlacingOrder = FALSE
    /\ isCheckingCart = FALSE
    /\ orderError = Undefined
    /\ showSuccessDialog = FALSE
    /\ showUpdateDialog = FALSE
    /\ updateDialogMessages = <<>>
    /\ isSignInModalOpen = FALSE
    /\ attempts = <<>>
    /\ orders = <<>>
    /\ storage = Some(JSONstringify(initialState))
    /\ app = "up"

(***************************************************************************)
(* The cart store driven directly: any caller, any argument.               *)
(***************************************************************************)
\* The quantity the line of `id` would have after an add of q (model bound only).
QtyAfterAdd(id, q) == getItemQuantity(id) + q

StoreAddItem ==
    \E item \in LineCandidates, q \in 1..MaxAddQty :
        /\ QtyAfterAdd(item.id, q) <= MaxQty
        /\ addItem(item, q)
        /\ SaveEffect
        /\ UNCHANGED <<authVars, pageVars, flowVars>>

StoreRemoveItem ==
    \E id \in ItemIds :
        /\ removeItem(id)
        /\ SaveEffect
        /\ UNCHANGED <<authVars, pageVars, flowVars>>

StoreUpdateQuantity ==
    \E id \in ItemIds, q \in (0 - NegUpdQty)..MaxUpdQty :
        /\ updateQuantity(id, q)
        /\ SaveEffect
        /\ UNCHANGED <<authVars, pageVars, flowVars>>

StoreClearCart ==
    /\ clearCart
    /\ SaveEffect
    /\ UNCHANGED <<authVars, pageVars, flowVars>>

NextStore ==
    \/ StoreAddItem
    \/ StoreRemoveItem
    \/ StoreUpdateQuantity
    \/ StoreClearCart

SpecStore == Init /\ [][NextStore]_vars

(***************************************************************************)
(* Catalog and order service, as seen by the client                        *)
(***************************************************************************)
Null == <<>>

\* BookResponse rows (book_title, book_price, discount_price) the catalog may
\* hold for a book at one time or another.
BookVersions ==
    { [book_title |-> "A", book_price |-> "10.00", discount_price |-> Null],
      [book_title |-> "A", book_price |-> "10.00", discount_price |-> Some("8.00")],
      [book_title |-> "A", book_price |-> "12.00", discount_price |-> Null],
      [book_title |-> "Z", book_price |-> "10.00", discount_price |-> Null],
      [book_title |-> "A", book_price |-> "10.00", discount_price |-> Some("9.00")] }

\* The row the product page showed when a book was put in the cart, and the
\* rows a lookup returns while a checkout is explored.
ShownVersions ==
    { v \in BookVersions : v.book_title = "A" /\ v.book_price = "10.00"
                           /\ v.discount_price = Null }

FetchedVersions ==
    ShownVersions \cup
    { v \in BookVersions : v.book_price = "12.00" }

\* parseFloat / Number of the decimal strings above, in cents.
parseFloat(s) ==
    CASE s = "8.00" -> 800
      [] s = "9.00" -> 900
      [] s = "10.00" -> 1000
      [] s = "12.00" -> 1200

\* book.discount_price ? parseFloat(book.discount_price) : undefined
ParseDiscount(d) == IF d = Null THEN Undefined ELSE Some(parseFloat(d[1]))

Pending == [type |-> "pending"]

\* What a rejected getBook carries: ky's HTTPError (response.status and a
\* message), or an Error without a response (fetch's TypeError, ky's
\* TimeoutError, the SyntaxError of a body that is not JSON, the mock
\* catalog's Error("Book not found")).  A message is the sequence of its words.
\* `cause` records why the lookup failed; the handler never reads it.
Http404 ==
    [cause |-> "notFound", status |-> Some(404),
     message |-> <<"Request", "failed", "with", "status", "code", "404", "Not", "Found">>]
BookNotFound ==
    [cause |-> "notFound", status |-> Undefined,
     message |-> <<"Book", "not", "found">>]
Http500 ==
    [cause |-> "server", status |-> Some(500),
     message |-> <<"Request", "failed", "with", "status", "code", "500",
                   "Internal", "Server", "Error">>]
FetchFailed ==
    [cause |-> "network", status |-> Undefined, message |-> <<"Failed", "to", "fetch">>]
TimedOut ==
    [cause |-> "timeout", status |-> Undefined, message |-> <<"Request", "timed", "out">>]
BodyNotJson ==
    [cause |-> "malformed", status |-> Undefined,
     message |-> <<"Unexpected", "token", "<", "in", "JSON">>]

LookupErrors == {Http404, BookNotFound, Http500, FetchFailed, TimedOut, BodyNotJson}

\* The errors met while a whole checkout is explored.
FlowLookupErrors == {Http404, FetchFailed}

\* What a settled validation promise carries: {type: 'success', fetchedBook}
\* or {type: 'error', error}.
ResultsOver(versions, errors) ==
    { [type |-> "success", fetchedBook |-> v] : v \in versions }
    \cup { [type |-> "error", error |-> e] : e \in errors }

LookupResults == ResultsOver(FetchedVersions, FlowLookupErrors)
AllLookupResults == ResultsOver(BookVersions, LookupErrors)

\* A string shown to the user: a plain text, the "Input error for '<field>':
\* <message>" template, or the JSON.stringify of a value.
Text(s) == [form |-> "text", text |-> s, field |-> "", data |-> <<>>]
InputError(f, m) == [form |-> "inputError", text |-> m, field |-> f, data |-> <<>>]
Stringified(v) == [form |-> "json", text |-> "", field |-> "", data |-> v]

\* The body of an error response of the order endpoint: not JSON, or an
\* object with a detail (a string, or a list of {loc, msg} field errors) or a
\* message.
NoJson == [json |-> FALSE, detail |-> Undefined, message |-> Undefined]
DetailString(s) ==
    [json |-> TRUE, detail |-> Some([type |-> "string", value |-> s]),
     message |-> Undefined]
DetailList(l) ==
    [json |-> TRUE, detail |-> Some([type |-> "array", value |-> l]),
     message |-> Undefined]
MessageOnly(s) == [json |-> TRUE, detail |-> Undefined, message |-> Some(s)]

\* What a rejected createOrder carries: ky's HTTPError with the response, or
\* an Error without one.
HttpError(body) ==
    [response |-> Some(body), message |-> "Request failed with status code"]
NetworkError == [response |-> Undefined, message |-> "Failed to fetch"]

QuantityFieldErrors ==
    << [loc |-> <<"body", "items", "quantity">>,
        msg |-> "Input should be greater than 0"] >>

OrderErrors ==
    { HttpError(DetailList(QuantityFieldErrors)),
      HttpError(DetailString("Order could not be created")),
      HttpError(MessageOnly("Internal Server Error")),
      HttpError(NoJson),
      NetworkError }

(***************************************************************************)
(* Product page                                                            *)
(***************************************************************************)
\* Number(...) of the decimal strings of the catalog, in cents.
Number(s) ==
    CASE s = "8.00" -> 800
      [] s = "9.00" -> 900
      [] s = "10.00" -> 1000
      [] s = "12.00" -> 1200

\* The item object handleAddToCart hands to addItem for a book it shows.
CartItemOf(bookId, book) ==
    [id |-> bookId,
     title |-> book.book_title,
     price |-> Number(book.book_price),
     discountPrice |-> IF book.discount_price = Null THEN Undefined
                       ELSE Some(Number(book.discount_price[1]))]

\* Variant: the limit is tested on the quantity asked for, not on the sum.
handleAddToCart_AskedOnly(bookId, book, quantity) ==
    IF quantity > MAX_LINE_QTY
    THEN UNCHANGED cart
    ELSE addItem(CartItemOf(bookId, book), quantity)

\* handleAddToCart: refuses an add that would take the line above 8.
handleAddToCart(bookId, book, quantity) ==
    LET currentQuantityInCart == getItemQuantity(bookId)
        potentialTotalQuantity == currentQuantityInCart + quantity
    IN  IF potentialTotalQuantity > MAX_LINE_QTY
        THEN UNCHANGED cart
        ELSE addItem(CartItemOf(bookId, book), quantity)

(***************************************************************************)
(* Cart page: handlePlaceOrder                                             *)
(***************************************************************************)
isAuthenticated == user /\ token

\* A running invocation still belongs to the CartPage instance on screen.
IsLive(a) == mounted /\ attempts[a].gen = pageGen

\* Variant: the validation reads the store's current items by position.
originalItems_Live(a) ==
    [i \in 1..Len(attempts[a].items) |->
        IF i <= Len(cart.items) THEN cart.items[i] ELSE attempts[a].items[i]]

\* The cart items the validation of attempt a reads (the closure's cart.items).
originalItems(a) == attempts[a].items

\* The per-field comparison of one settled success; the reasons in the order
\* the code appends them to updateReason.
UpdateReasons(originalItem, fetchedBook) ==
    LET fetchedPrice == parseFloat(fetchedBook.book_price)
        fetchedDiscountPrice == ParseDiscount(fetchedBook.discount_price)
        priceReason ==
            IF originalItem.price # fetchedPrice
            THEN << <<"Price changed", originalItem.price, fetchedPrice>> >>
            ELSE <<>>
        discountReason ==
            IF originalItem.discountPrice # fetchedDiscountPrice
            THEN IF originalItem.discountPrice = Undefined
                 THEN << <<"Now on sale", fetchedDiscountPrice[1]>> >>
                 ELSE IF fetchedDiscountPrice = Undefined
                 THEN << <<"No longer on sale", originalItem.discountPrice[1]>> >>
                 ELSE << <<"Sale price changed", originalItem.discountPrice[1],
                           fetchedDiscountPrice[1]>> >>
            ELSE <<>>
        titleReason ==
            IF originalItem.title # fetchedBook.book_title
            THEN << <<"Title updated">> >>
            ELSE <<>>
    IN  priceReason \o discountReason \o titleReason

\* Variant: only the price is compared.
ItemUpdated_PriceOnly(originalItem, fetchedBook) ==
    originalItem.price # parseFloat(fetchedBook.book_price)

\* itemUpdated of one settled success.
ItemUpdated(originalItem, fetchedBook) ==
    \/ originalItem.price # parseFloat(fetchedBook.book_price)
    \/ originalItem.discountPrice # ParseDiscount(fetchedBook.discount_price)
    \/ originalItem.title # fetchedBook.book_title

\* String.prototype.toLowerCase, word by word.
toLowerCase(message) ==
    [k \in 1..Len(message) |->
        CASE message[k] = "Not" -> "not"
          [] message[k] = "Found" -> "found"
          [] message[k] = "Book" -> "book"
          [] message[k] = "Request" -> "request"
          [] message[k] = "Failed" -> "failed"
          [] message[k] = "Internal" -> "internal"
          [] message[k] = "Server" -> "server"
          [] message[k] = "Error" -> "error"
          [] message[k] = "Unexpected" -> "unexpected"
          [] message[k] = "JSON" -> "json"
          [] OTHER -> message[k]]

\* String.prototype.includes for a phrase of whole words.
includes(message, phrase) ==
    \E k \in 0..(Len(message) - Len(phrase)) :
        \A j \in 1..Len(phrase) : message[k + j] = phrase[j]

\* Variant: every rejected lookup counts as not-found.
isNotFoundError_AnyError(error) == TRUE

\* error?.response?.status === 404, or an Error whose message holds "not found"
isNotFoundError(error) ==
    IF error.status = Some(404)
    THEN TRUE
    ELSE includes(toLowerCase(error.message), <<"not", "found">>)

\* Variant: a lookup that failed for another reason than 404 is only logged.
ForEachResult_IgnoreFailure(originalItem, result) ==
    IF result.type = "success"
    THEN IF ItemUpdated(originalItem, result.fetchedBook)
         THEN [needsUpdate |-> TRUE, remove |-> <<>>,
               messages |-> << [kind |-> "updated", title |-> originalItem.title,
                                reasons |-> UpdateReasons(originalItem,
                                                          result.fetchedBook)] >>]
         ELSE [needsUpdate |-> FALSE, remove |-> <<>>, messages |-> <<>>]
    ELSE IF isNotFoundError(result.error)
         THEN [needsUpdate |-> TRUE, remove |-> <<originalItem.id>>,
               messages |-> << [kind |-> "removed", title |-> originalItem.title,
                                reasons |-> <<>>] >>]
         ELSE [needsUpdate |-> FALSE, remove |-> <<>>, messages |-> <<>>]

\* Variant: a line whose details changed is taken out of the cart as well.
ForEachResult_DropDrifted(originalItem, result) ==
    IF result.type = "success"
    THEN IF ItemUpdated(originalItem, result.fetchedBook)
         THEN [needsUpdate |-> TRUE, remove |-> <<originalItem.id>>,
               messages |-> << [kind |-> "updated", title |-> originalItem.title,
                                reasons |-> UpdateReasons(originalItem,
                                                          result.fetchedBook)] >>]
         ELSE [needsUpdate |-> FALSE, remove |-> <<>>, messages |-> <<>>]
    ELSE IF isNotFoundError(result.error)
         THEN [needsUpdate |-> TRUE, remove |-> <<originalItem.id>>,
               messages |-> << [kind |-> "removed", title |-> originalItem.title,
                                reasons |-> <<>>] >>]
         ELSE [needsUpdate |-> TRUE, remove |-> <<>>,
               messages |-> << [kind |-> "unverified", title |-> originalItem.title,
                                reasons |-> <<>>] >>]

\* What results.forEach does for one result: the part it adds to
\* cartNeedsUpdate, itemsToRemove and validationMessages.
ForEachResult(originalItem, result) ==
    IF result.type = "success"
    THEN IF ItemUpdated(originalItem, result.fetchedBook)
         THEN [needsUpdate |-> TRUE, remove |-> <<>>,
               messages |-> << [kind |-> "updated", title |-> originalItem.title,
                                reasons |-> UpdateReasons(originalItem,
                                                          result.fetchedBook)] >>]
         ELSE [needsUpdate |-> FALSE, remove |-> <<>>, messages |-> <<>>]
    ELSE IF isNotFoundError(result.error)
         THEN [needsUpdate |-> TRUE, remove |-> <<originalItem.id>>,
               messages |-> << [kind |-> "removed", title |-> originalItem.title,
                                reasons |-> <<>>] >>]
         ELSE [needsUpdate |-> TRUE, remove |-> <<>>,
               messages |-> << [kind |-> "unverified", title |-> originalItem.title,
                                reasons |-> <<>>] >>]

\* Variant: the results are walked in the order they arrived.
ResultOrder_Arrival(n, arrival) == arrival

\* The order in which the settled results are walked: Promise.all hands them
\* over in the order of the promises, whatever the order of arrival.
ResultOrder(n, arrival) == [i \in 1..n |-> i]

\* Variant: each message is put in front of the ones collected so far.
RECURSIVE Validate_Unshift(_, _, _, _)
Validate_Unshift(items, results, order, k) ==
    IF k = 0
    THEN [needsUpdate |-> FALSE, remove |-> <<>>, messages |-> <<>>]
    ELSE LET before == Validate_Unshift(items, results, order, k - 1)
             one == ForEachResult(items[order[k]], results[order[k]])
         IN  [needsUpdate |-> before.needsUpdate \/ one.needsUpdate,
              remove |-> before.remove \o one.remove,
              messages |-> one.messages \o before.messages]

\* results.forEach over the first k results.
RECURSIVE Validate(_, _, _, _)
Validate(items, results, order, k) ==
    IF k = 0
    THEN [needsUpdate |-> FALSE, remove |-> <<>>, messages |-> <<>>]
    ELSE LET before == Validate(items, results, order, k - 1)
             one == ForEachResult(items[order[k]], results[order[k]])
         IN  [needsUpdate |-> before.needsUpdate \/ one.needsUpdate,
              remove |-> before.remove \o one.remove,
              messages |-> before.messages \o one.messages]

\* Variant: the promises carry no .catch, so one rejected lookup rejects
\* Promise.all and the handler's catch block ends the pass.
RunValidation_AbortOnError(items, results, arrival) ==
    IF \E i \in 1..Len(results) : results[i].type = "error"
    THEN [needsUpdate |-> TRUE, remove |-> <<>>, messages |-> <<>>]
    ELSE Validate(items, results, ResultOrder(Len(results), arrival), Len(results))

\* await Promise.all(validationPromises) followed by results.forEach(...).
RunValidation(items, results, arrival) ==
    Validate(items, results, ResultOrder(Len(results), arrival), Len(results))

\* Variant: a pass that found a line gone empties the cart.
RemoveAll_Nothing(state, ids) == state

RemoveAll_Clear(state, ids) ==
    IF ids = <<>> THEN state ELSE cartReducer(state, [type |-> "CLEAR_CART"])

\* itemsToRemove.forEach(id => removeItem(id)) on the store's state.
RECURSIVE RemoveAll(_, _)
RemoveAll(state, ids) ==
    IF ids = <<>> THEN state
    ELSE RemoveAll(cartReducer(state, [type |-> "REMOVE_ITEM",
                                       payload |-> [id |-> Head(ids)]]),
                   Tail(ids))

\* cart.items.map(item => ({book_id: Number(item.id), quantity: item.quantity}))
OrderItemsOf(items) ==
    [i \in 1..Len(items) |-> [book_id |-> items[i].id, quantity |-> items[i].quantity]]

\* The Place Order button is rendered with a non-empty cart and is disabled
\* while isPlacingOrder or isCheckingCart.
PlaceOrderEnabled ==
    /\ mounted
    /\ Len(cart.items) > 0
    /\ ~isPlacingOrder
    /\ ~isCheckingCart

\* Variant: the order is built from the cart of the latest render.
orderItems_Live(a) == OrderItemsOf(cart.items)

\* const orderItems = cart.items.map(...): cart is the one the handler closed
\* over, the same the lookups were launched from.
orderItems(a) == OrderItemsOf(attempts[a].items)

\* The locals of an invocation that has returned are garbage; the model drops
\* them, and the item list of the order it sent, when the next invocation
\* starts.
Returned(rec) == rec.pc \in {"done", "failed"}

Forget(rec) ==
    IF Returned(rec)
    THEN [gen |-> 0, pc |-> rec.pc, items |-> <<>>, launched |-> <<>>,
          results |-> <<>>, arrival |-> <<>>, editedAtJoin |-> FALSE,
          outcome |-> Undefined, caught |-> Undefined]
    ELSE rec

\* An invocation at its first await: the closure's cart.items, one getBook
\* launched per item, every promise pending.
Invocation(gen, items) ==
    [gen |-> gen,
     pc |-> "lookups",
     items |-> items,
     launched |-> [i \in 1..Len(items) |-> items[i].id],
     results |-> [i \in 1..Len(items) |-> Pending],
     arrival |-> <<>>,
     editedAtJoin |-> FALSE,
     outcome |-> Undefined,
     caught |-> Undefined]

\* Variant: only the token is looked at.
AuthRequired_TokenOnly == ~token

\* if (!isAuthenticated || !token)
AuthRequired == ~isAuthenticated \/ ~token

\* handlePlaceOrder up to its first await.
PlaceOrderClick ==
    /\ PlaceOrderEnabled
    /\ Len(attempts) < MaxAttempts
    /\ IF AuthRequired
       THEN /\ isSignInModalOpen' = TRUE
            /\ UNCHANGED <<cart, persistVars, authVars, mounted, pageGen, isPlacingOrder,
                           isCheckingCart, orderError, showSuccessDialog,
                           showUpdateDialog, updateDialogMessages, flowVars>>
       ELSE IF Len(cart.items) = 0
       THEN /\ orderError' = Some(Text("Your cart is empty."))
            /\ UNCHANGED <<cart, persistVars, authVars, mounted, pageGen, isPlacingOrder,
                           isCheckingCart, showSuccessDialog, showUpdateDialog,
                           updateDialogMessages, isSignInModalOpen, flowVars>>
       ELSE /\ isCheckingCart' = TRUE
            /\ isPlacingOrder' = TRUE
            /\ orderError' = Undefined
            /\ updateDialogMessages' = <<>>
            /\ attempts' = Append([a \in 1..Len(attempts) |-> Forget(attempts[a])],
                                  Invocation(pageGen, cart.items))
            /\ orders' = [k \in 1..Len(orders) |->
                              IF Returned(attempts[orders[k].attempt])
                              THEN [orders[k] EXCEPT !.items = <<>>]
                              ELSE orders[k]]
            /\ UNCHANGED <<cart, persistVars, authVars, mounted, pageGen, showSuccessDialog,
                           showUpdateDialog, isSignInModalOpen>>

PendingLookups(a) ==
    {i \in 1..Len(attempts[a].results) : attempts[a].results[i] = Pending}

\* One validation promise settles while others are still pending.
Settle(a, i, r) ==
    /\ attempts[a].pc = "lookups"
    /\ i \in PendingLookups(a)
    /\ PendingLookups(a) # {i}
    /\ attempts' = [attempts EXCEPT ![a].results[i] = r,
                                    ![a].arrival = Append(@, i)]
    /\ UNCHANGED <<cart, persistVars, authVars, pageVars, orders>>

LookupSettle ==
    \E a \in 1..Len(attempts), r \in LookupResults :
      \E i \in PendingLookups(a) : Settle(a, i, r)

\* The last validation promise settles: Promise.all resolves and the handler
\* runs on to its return or to the order request.
FanIn(a, i, r) ==
    LET results == [attempts[a].results EXCEPT ![i] = r]
        arrival == Append(attempts[a].arrival, i)
        items == originalItems(a)
        v == RunValidation(items, results, arrival)
        live == IsLive(a)
    IN  /\ attempts[a].pc = "lookups"
        /\ PendingLookups(a) = {i}
        /\ isCheckingCart' = IF live THEN FALSE ELSE isCheckingCart
        /\ IF v.needsUpdate
           THEN /\ cart' = RemoveAll(cart, v.remove)
                /\ updateDialogMessages' =
                       IF live THEN v.messages ELSE updateDialogMessages
                /\ showUpdateDialog' = IF live THEN TRUE ELSE showUpdateDialog
                /\ isPlacingOrder' = IF live THEN FALSE ELSE isPlacingOrder
                /\ attempts' = [attempts EXCEPT
                       ![a].results = results, ![a].arrival = arrival,
                       ![a].editedAtJoin = (cart.items # attempts[a].items),
                       ![a].pc = "done",
                       ![a].outcome = Some([pass |-> FALSE, removed |-> v.remove,
                                            messages |-> v.messages])]
                /\ SaveEffect
                /\ UNCHANGED orders
           ELSE /\ orders' = Append(orders, [attempt |-> a, items |-> orderItems(a)])
                /\ attempts' = [attempts EXCEPT
                       ![a].results = results, ![a].arrival = arrival,
                       ![a].editedAtJoin = (cart.items # attempts[a].items),
                       ![a].pc = "order",
                       ![a].outcome = Some([pass |-> TRUE, removed |-> v.remove,
                                            messages |-> v.messages])]
                /\ UNCHANGED <<cart, persistVars, updateDialogMessages, showUpdateDialog,
                               isPlacingOrder>>
        /\ UNCHANGED <<authVars, mounted, pageGen, orderError, showSuccessDialog,
                       isSignInModalOpen>>

LookupSettleLast ==
    \E a \in 1..Len(attempts), r \in LookupResults :
      \E i \in PendingLookups(a) : FanIn(a, i, r)

\* createOrder resolved: setCreatedOrder, clearCart, setShowSuccessDialog(true).
OrderCreated(a) ==
    /\ attempts[a].pc = "order"
    /\ clearCart
    /\ SaveEffect
    /\ showSuccessDialog' = IF IsLive(a) THEN TRUE ELSE showSuccessDialog
    /\ attempts' = [attempts EXCEPT ![a].pc = "done"]
    /\ UNCHANGED <<authVars, mounted, pageGen, isPlacingOrder, isCheckingCart,
                   orderError, showUpdateDialog, updateDialogMessages,
                   isSignInModalOpen, orders>>

\* The detail the catch block computes from the caught error.
orderErrorDetail(error) ==
    IF error.response # Undefined
    THEN LET errorBody == error.response[1]
         IN  IF ~errorBody.json
             THEN Text("Failed to place order. Please try again.")
             ELSE IF errorBody.detail # Undefined
             THEN IF errorBody.detail[1].type = "string"
                  THEN Text(errorBody.detail[1].value)
                  ELSE Stringified(errorBody.detail[1].value)
             ELSE Text("Failed to place order. Please try again.")
    ELSE Text(error.message)

\* Variant: the catch block also empties the cart.
OrderRejected_ClearCart(a, error) ==
    /\ attempts[a].pc = "order"
    /\ clearCart
    /\ SaveEffect
    /\ orderError' = IF IsLive(a) THEN Some(orderErrorDetail(error)) ELSE orderError
    /\ isCheckingCart' = IF IsLive(a) THEN FALSE ELSE isCheckingCart
    /\ isPlacingOrder' = IF IsLive(a) THEN FALSE ELSE isPlacingOrder
    /\ attempts' = [attempts EXCEPT ![a].pc = "failed", ![a].caught = Some(error)]
    /\ UNCHANGED <<authVars, mounted, pageGen, showSuccessDialog,
                   showUpdateDialog, updateDialogMessages, isSignInModalOpen, orders>>

\* createOrder rejected: the catch block.  The body of the response is read
\* with one more await; what follows it only sets state of the page, so the
\* block is taken as one step.
OrderRejected(a, error) ==
    /\ attempts[a].pc = "order"
    /\ orderError' = IF IsLive(a) THEN Some(orderErrorDetail(error)) ELSE orderError
    /\ isCheckingCart' = IF IsLive(a) THEN FALSE ELSE isCheckingCart
    /\ isPlacingOrder' = IF IsLive(a) THEN FALSE ELSE isPlacingOrder
    /\ attempts' = [attempts EXCEPT ![a].pc = "failed", ![a].caught = Some(error)]
    /\ UNCHANGED <<cart, persistVars, authVars, mounted, pageGen, showSuccessDialog,
                   showUpdateDialog, updateDialogMessages, isSignInModalOpen, orders>>

OrderSettleCreated == \E a \in 1..Len(attempts) : OrderCreated(a)
OrderSettleRejected ==
    \E a \in 1..Len(attempts), error \in OrderErrors : OrderRejected(a, error)

(***************************************************************************)
(* The user and the rest of the application                                *)
(***************************************************************************)
PageReset ==
    /\ isPlacingOrder' = FALSE
    /\ isCheckingCart' = FALSE
    /\ orderError' = Undefined
    /\ showSuccessDialog' = FALSE
    /\ showUpdateDialog' = FALSE
    /\ updateDialogMessages' = <<>>
    /\ isSignInModalOpen' = FALSE

\* The router shows the cart page: a new CartPage instance with fresh state.
OpenCartPage ==
    /\ ~mounted
    /\ pageGen + 1 \in PageInstances
    /\ mounted' = TRUE
    /\ pageGen' = pageGen + 1
    /\ PageReset
    /\ UNCHANGED <<cart, persistVars, authVars, flowVars>>

\* The user leaves the cart page (navigation, or the redirect that follows the
\* success dialog): the instance is unmounted and its state is gone.
CloseCartPage ==
    /\ mounted
    /\ mounted' = FALSE
    /\ PageReset
    /\ UNCHANGED <<cart, persistVars, authVars, pageGen, flowVars>>

\* "OK" of the Cart Updated dialog.
CloseUpdateDialog ==
    /\ mounted
    /\ showUpdateDialog
    /\ showUpdateDialog' = FALSE
    /\ UNCHANGED <<cart, persistVars, authVars, mounted, pageGen, isPlacingOrder, isCheckingCart,
                   orderError, showSuccessDialog, updateDialogMessages,
                   isSignInModalOpen, flowVars>>

\* Product page (another route): Add to cart.
PageAddToCart ==
    \E id \in ItemIds, book \in ShownVersions, q \in FlowQuantities :
        /\ ~mounted
        /\ QtyAfterAdd(id, q) \in FlowQuantities
        /\ handleAddToCart(id, book, q)
        /\ SaveEffect
        /\ UNCHANGED <<authVars, pageVars, flowVars>>

\* Cart page, QuantityInput of a line: handleQuantityChange.
PageQuantityChange ==
    \E i \in 1..Len(cart.items), newQuantity \in {0} \cup FlowQuantities :
        /\ mounted
        /\ newQuantity # cart.items[i].quantity
        /\ IF newQuantity < 1
           THEN removeItem(cart.items[i].id)
           ELSE updateQuantity(cart.items[i].id, newQuantity)
        /\ SaveEffect
        /\ UNCHANGED <<authVars, pageVars, flowVars>>

\* Cart page, trash button of a line: handleRemoveItem.
PageRemoveItem ==
    \E i \in 1..Len(cart.items) :
        /\ mounted
        /\ removeItem(cart.items[i].id)
        /\ SaveEffect
        /\ UNCHANGED <<authVars, pageVars, flowVars>>

\* AuthProvider.login: the token is stored, then the user is fetched.  On the
\* cart page the call comes from the sign-in modal, which closes on success.
LoginToken ==
    /\ ~token
    /\ token' = TRUE
    /\ UNCHANGED <<cart, persistVars, user, pageVars, flowVars>>

LoginUser ==
    /\ token
    /\ ~user
    /\ user' = TRUE
    /\ isSignInModalOpen' = FALSE
    /\ UNCHANGED <<cart, persistVars, token, mounted, pageGen, isPlacingOrder, isCheckingCart,
                   orderError, showSuccessDialog, showUpdateDialog,
                   updateDialogMessages, flowVars>>

\* AuthProvider.logout (header): the session ends and the cart is cleared.
Logout ==
    /\ user
    /\ token' = FALSE
    /\ user' = FALSE
    /\ clearCart
    /\ SaveEffect
    /\ UNCHANGED <<pageVars, flowVars>>

NextCheckout ==
    \/ OpenCartPage
    \/ CloseCartPage
    \/ CloseUpdateDialog
    \/ PageAddToCart
    \/ PageQuantityChange
    \/ PageRemoveItem
    \/ LoginToken
    \/ LoginUser
    \/ Logout
    \/ PlaceOrderClick
    \/ LookupSettle
    \/ LookupSettleLast
    \/ OrderSettleCreated
    \/ OrderSettleRejected

SpecCheckout == Init /\ [][NextCheckout]_vars

(***************************************************************************)
(* One reconciliation pass over every cart and every lookup result: the    *)
(* signed-in user has just clicked Place Order on a cart whose lines were  *)
(* cached from any rows of the catalog.                                    *)
(***************************************************************************)
CachedLines ==
    { [id |-> CartItemOf(id, v).id, title |-> CartItemOf(id, v).title,
       price |-> CartItemOf(id, v).price,
       discountPrice |-> CartItemOf(id, v).discountPrice, quantity |-> q] :
          id \in ItemIds, v \in BookVersions, q \in FlowQuantities }

CheckoutCarts ==
    { <<l>> : l \in CachedLines }
    \cup { <<p[1], p[2]>> : p \in {q \in CachedLines \X CachedLines : q[1].id # q[2].id} }

InitReconcile ==
    \E items \in CheckoutCarts :
        /\ cart = WithTotals(items)
        /\ user = TRUE
        /\ token = TRUE
        /\ mounted = TRUE
        /\ pageGen = 1
        /\ isPlacingOrder = TRUE
        /\ isCheckingCart = TRUE
        /\ orderError = Undefined
        /\ showSuccessDialog = FALSE
        /\ showUpdateDialog = FALSE
        /\ updateDialogMessages = <<>>
        /\ isSignInModalOpen = FALSE
        /\ attempts = <<Invocation(1, items)>>
        /\ orders = <<>>
        /\ storage = Some(JSONstringify(WithTotals(items)))
        /\ app = "up"

ReconcileSettle ==
    \E r \in AllLookupResults :
      \E i \in PendingLookups(1) : Settle(1, i, r)

ReconcileJoin ==
    \E r \in AllLookupResults :
      \E i \in PendingLookups(1) : FanIn(1, i, r)

NextReconcile ==
    \/ ReconcileSettle
    \/ ReconcileJoin

SpecReconcile == InitReconcile /\ [][NextReconcile]_vars

(***************************************************************************)
(* The life of the stored cart: the application is started on whatever the *)
(* storage holds, the store is used, the page is reloaded; between two     *)
(* runs the stored string may have been removed or written by other code.  *)
(***************************************************************************)
\* What the key can hold besides a cart written by saveCartToLocalStorage.
ForeignRecords ==
    { Undefined,
      Some(StoredText("empty", Undefined)),
      Some(StoredText("notJson", Undefined)),
      Some(StoredText("null", Undefined)),
      Some(StoredText("emptyObject", Undefined)) }

InitPersist ==
    /\ cart = initialState
    /\ user = FALSE
    /\ token = FALSE
    /\ mounted = FALSE
    /\ pageGen = 0
    /\ isPlacingOrder = FALSE
    /\ isCheckingCart = FALSE
    /\ orderError = Undefined
    /\ showSuccessDialog = FALSE
    /\ showUpdateDialog = FALSE
    /\ updateDialogMessages = <<>>
    /\ isSignInModalOpen = FALSE
    /\ attempts = <<>>
    /\ orders = <<>>
    /\ storage = Undefined
    /\ app = "down"

\* localStorage.setItem throws (quota exceeded, storage not available): the
\* exception leaves the effect, and React unmounts the tree, which has no
\* error boundary.
SaveThrows ==
    /\ UNCHANGED storage
    /\ app' = "crashed"

\* The first render of CartProvider: useReducer(cartReducer,
\* loadCartFromLocalStorage()), then the effect stores what was loaded.  An
\* exception of JSON.parse leaves the render; a parsed value that is no
\* CartState becomes the state of the store and is stored back as it is.
Boot ==
    /\ app = "down"
    /\ IF loadCartFromLocalStorage.threw
       THEN /\ app' = "crashed"
            /\ UNCHANGED <<cart, storage>>
       ELSE IF ~loadCartFromLocalStorage.isCartState
       THEN /\ app' = "corrupt"
            /\ UNCHANGED <<cart, storage>>
       ELSE /\ cart' = loadCartFromLocalStorage.state
            /\ \/ (saveCartToLocalStorage(cart') /\ app' = "up")
               \/ SaveThrows
    /\ UNCHANGED <<authVars, pageVars, flowVars>>

PersistAddItem ==
    \E item \in LineCandidates, q \in FlowQuantities :
        /\ app = "up"
        /\ QtyAfterAdd(item.id, q) \in FlowQuantities
        /\ addItem(item, q)
        /\ (SaveEffect \/ SaveThrows)
        /\ UNCHANGED <<authVars, pageVars, flowVars>>

PersistRemoveItem ==
    \E id \in ItemIds :
        /\ app = "up"
        /\ removeItem(id)
        /\ (SaveEffect \/ SaveThrows)
        /\ UNCHANGED <<authVars, pageVars, flowVars>>

PersistUpdateQuantity ==
    \E id \in ItemIds, q \in {0} \cup FlowQuantities :
        /\ app = "up"
        /\ updateQuantity(id, q)
        /\ (SaveEffect \/ SaveThrows)
        /\ UNCHANGED <<authVars, pageVars, flowVars>>

PersistClearCart ==
    /\ app = "up"
    /\ clearCart
    /\ (SaveEffect \/ SaveThrows)
    /\ UNCHANGED <<authVars, pageVars, flowVars>>

\* The page is reloaded or closed: what was in memory is gone.
Reload ==
    /\ app # "down"
    /\ app' = "down"
    /\ cart' = initialState
    /\ UNCHANGED <<storage, authVars, pageVars, flowVars>>

\* While the application is not running the key is removed or rewritten.
StorageReplaced ==
    \E record \in ForeignRecords :
        /\ app = "down"
        /\ storage # record
        /\ storage' = record
        /\ UNCHANGED <<cart, app, authVars, pageVars, flowVars>>

NextPersist ==
    \/ Boot
    \/ PersistAddItem
    \/ PersistRemoveItem
    \/ PersistUpdateQuantity
    \/ PersistClearCart
    \/ Reload
    \/ StorageReplaced

SpecPersist == InitPersist /\ [][NextPersist]_vars

(***************************************************************************)
(* The cart store with three books: carts of up to three lines, so that a  *)
(* removal leaves two lines whose order can be observed.                   *)
(***************************************************************************)
ThreeIds == {1, 2, 3}
ThreeQuantities == 1..3

ThreeCandidates ==
    [id : ThreeIds, title : {"A"}, price : {1000}, discountPrice : {Undefined}]

ThreeAddItem ==
    \E item \in ThreeCandidates, q \in ThreeQuantities :
        /\ getItemQuantity(item.id) + q \in ThreeQuantities
        /\ addItem(item, q)
        /\ SaveEffect
        /\ UNCHANGED <<authVars, pageVars, flowVars>>

ThreeRemoveItem ==
    \E id \in ThreeIds :
        /\ removeItem(id)
        /\ SaveEffect
        /\ UNCHANGED <<authVars, pageVars, flowVars>>

ThreeUpdateQuantity ==
    \E id \in ThreeIds, q \in ThreeQuantities \cup {0} :
        /\ updateQuantity(id, q)
        /\ SaveEffect
        /\ UNCHANGED <<authVars, pageVars, flowVars>>

ThreeClearCart ==
    /\ clearCart
    /\ SaveEffect
    /\ UNCHANGED <<authVars, pageVars, flowVars>>

NextThree ==
    \/ ThreeAddItem
    \/ ThreeRemoveItem
    \/ ThreeUpdateQuantity
    \/ ThreeClearCart

SpecThree == Init /\ [][NextThree]_vars

(***************************************************************************)
(* Shopping: the product page's "Add to cart" with every quantity its      *)
(* QuantityInput offers (min 1, max 8), and the cart page's quantity       *)
(* inputs (min 0, max 8) and trash buttons.                                *)
(***************************************************************************)
ProductQuantities == 1..MAX_LINE_QTY
CartPageQuantities == 0..MAX_LINE_QTY

ShopAddToCart ==
    \E id \in ItemIds, book \in ShownVersions, quantity \in ProductQuantities :
        /\ handleAddToCart(id, book, quantity)
        /\ SaveEffect
        /\ UNCHANGED <<authVars, pageVars, flowVars>>

ShopQuantityChange ==
    \E i \in 1..Len(cart.items), newQuantity \in CartPageQuantities :
        /\ newQuantity # cart.items[i].quantity
        /\ IF newQuantity < 1
           THEN removeItem(cart.items[i].id)
           ELSE updateQuantity(cart.items[i].id, newQuantity)
        /\ SaveEffect
        /\ UNCHANGED <<authVars, pageVars, flowVars>>

ShopRemoveItem ==
    \E i \in 1..Len(cart.items) :
        /\ removeItem(cart.items[i].id)
        /\ SaveEffect
        /\ UNCHANGED <<authVars, pageVars, flowVars>>

NextShop ==
    \/ ShopAddToCart
    \/ ShopQuantityChange
    \/ ShopRemoveItem

SpecShop == Init /\ [][NextShop]_vars

(***************************************************************************)
(* Leaving the cart page and coming back while a checkout is under way: a  *)
(* signed-in user, a cart of one or two lines as the product page cached   *)
(* them, and two instances of the cart page, one after the other.          *)
(***************************************************************************)
RemountInstances == {1, 2}

RemountLine(id) ==
    [id |-> id, title |-> "A", price |-> 1000, discountPrice |-> Undefined,
     quantity |-> 1]

RemountCarts == { <<RemountLine(1)>>, <<RemountLine(1), RemountLine(2)>> }

InitRemount ==
    \E items \in RemountCarts :
        /\ cart = WithTotals(items)
        /\ user = TRUE
        /\ token = TRUE
        /\ mounted = TRUE
        /\ pageGen = 1
        /\ isPlacingOrder = FALSE
        /\ isCheckingCart = FALSE
        /\ orderError = Undefined
        /\ showSuccessDialog = FALSE
        /\ showUpdateDialog = FALSE
        /\ updateDialogMessages = <<>>
        /\ isSignInModalOpen = FALSE
        /\ attempts = <<>>
        /\ orders = <<>>
        /\ storage = Some(JSONstringify(WithTotals(items)))
        /\ app = "up"

\* The router shows the cart page again: a new instance with fresh state.
ReopenCartPage ==
    /\ ~mounted
    /\ pageGen + 1 \in RemountInstances
    /\ mounted' = TRUE
    /\ pageGen' = pageGen + 1
    /\ PageReset
    /\ UNCHANGED <<cart, persistVars, authVars, flowVars>>

NextRemount ==
    \/ ReopenCartPage
    \/ CloseCartPage
    \/ CloseUpdateDialog
    \/ PlaceOrderClick
    \/ LookupSettle
    \/ LookupSettleLast
    \/ OrderSettleCreated
    \/ OrderSettleRejected

SpecRemount == InitRemount /\ [][NextRemount]_vars

(***************************************************************************)
(* A checkout that runs to its end on a cart page that stays open.  Every  *)
(* getBook and createOrder request settles, and the timer the success      *)
(* dialog starts fires unless the dialog is closed first; what the user    *)
(* does is left to the user.                                               *)
(***************************************************************************)
InitIdle ==
    \E items \in RemountCarts, signedIn \in BOOLEAN :
        /\ cart = WithTotals(items)
        /\ user = signedIn
        /\ token = signedIn
        /\ mounted = TRUE
        /\ pageGen = 1
        /\ isPlacingOrder = FALSE
        /\ isCheckingCart = FALSE
        /\ orderError = Undefined
        /\ showSuccessDialog = FALSE
        /\ showUpdateDialog = FALSE
        /\ updateDialogMessages = <<>>
        /\ isSignInModalOpen = FALSE
        /\ attempts = <<>>
        /\ orders = <<>>
        /\ storage = Some(JSONstringify(WithTotals(items)))
        /\ app = "up"

\* The timeout of the success dialog's effect: setShowSuccessDialog(false)
\* and navigate to the shop, which unmounts the cart page.
SuccessRedirect ==
    /\ mounted
    /\ showSuccessDialog
    /\ mounted' = FALSE
    /\ PageReset
    /\ UNCHANGED <<cart, persistVars, authVars, pageGen, flowVars>>

\* The success dialog is closed by the user: onOpenChange(false).  The
\* effect's cleanup clears the timer.
DismissSuccessDialog ==
    /\ mounted
    /\ showSuccessDialog
    /\ showSuccessDialog' = FALSE
    /\ UNCHANGED <<cart, persistVars, authVars, mounted, pageGen, isPlacingOrder,
                   isCheckingCart, orderError, showUpdateDialog,
                   updateDialogMessages, isSignInModalOpen, flowVars>>

\* The sign-in modal is closed without signing in.
CloseSignInModal ==
    /\ mounted
    /\ isSignInModalOpen
    /\ isSignInModalOpen' = FALSE
    /\ UNCHANGED <<cart, persistVars, authVars, mounted, pageGen, isPlacingOrder,
                   isCheckingCart, orderError, showSuccessDialog, showUpdateDialog,
                   updateDialogMessages, flowVars>>

NextIdle ==
    \/ PlaceOrderClick
    \/ LookupSettle
    \/ LookupSettleLast
    \/ OrderSettleCreated
    \/ OrderSettleRejected
    \/ CloseUpdateDialog
    \/ CloseSignInModal
    \/ SuccessRedirect
    \/ DismissSuccessDialog

SpecIdle ==
    /\ InitIdle
    /\ [][NextIdle]_vars
    /\ WF_vars(LookupSettle)
    /\ WF_vars(LookupSettleLast)
    /\ WF_vars(OrderSettleCreated \/ OrderSettleRejected)
    /\ WF_vars(SuccessRedirect)

(***************************************************************************)
(* Retrying the checkout against a catalog that does not change: book 1    *)
(* and book 3 are as the server has them, book 2 has been deleted.  The    *)
(* cart holds lines cached from the current rows or from rows with an      *)
(* older price.  The user is signed in, stays on the cart page, clicks     *)
(* Place Order again after a failed pass, and may remove a line that was   *)
(* reported as changed.  The Cart Updated dialog is left out: it changes   *)
(* nothing a later attempt reads.                                          *)
(***************************************************************************)
CurrentRow == [book_title |-> "A", book_price |-> "10.00", discount_price |-> Null]
OlderRow == [book_title |-> "A", book_price |-> "12.00", discount_price |-> Null]

\* What getBook(id) settles with, every time it is called.
CatalogLookup(id) ==
    IF id = 2 THEN [type |-> "error", error |-> Http404]
    ELSE [type |-> "success", fetchedBook |-> CurrentRow]

RetryLines ==
    { [id |-> CartItemOf(id, v).id, title |-> CartItemOf(id, v).title,
       price |-> CartItemOf(id, v).price,
       discountPrice |-> CartItemOf(id, v).discountPrice, quantity |-> 1] :
          id \in ThreeIds, v \in {CurrentRow, OlderRow} }

\* Carts in the order of their ids; the line of the deleted book is cached
\* from the current row (what it is cached from makes no difference).
RetryCarts ==
    { items \in UNION { [1..n -> RetryLines] : n \in 1..3 } :
        /\ \A i, j \in 1..Len(items) : i < j => items[i].id < items[j].id
        /\ \A i \in 1..Len(items) : items[i].id = 2 => items[i].price = 1000 }

InitRetry ==
    \E items \in RetryCarts :
        /\ cart = WithTotals(items)
        /\ user = TRUE
        /\ token = TRUE
        /\ mounted = TRUE
        /\ pageGen = 1
        /\ isPlacingOrder = FALSE
        /\ isCheckingCart = FALSE
        /\ orderError = Undefined
        /\ showSuccessDialog = FALSE
        /\ showUpdateDialog = FALSE
        /\ updateDialogMessages = <<>>
        /\ isSignInModalOpen = FALSE
        /\ attempts = <<>>
        /\ orders = <<>>
        /\ storage = Some(JSONstringify(WithTotals(items)))
        /\ app = "up"

RetrySettle ==
    \E a \in 1..Len(attempts) :
      \E i \in PendingLookups(a) : Settle(a, i, CatalogLookup(attempts[a].launched[i]))

RetryJoin ==
    \E a \in 1..Len(attempts) :
      \E i \in PendingLookups(a) : FanIn(a, i, CatalogLookup(attempts[a].launched[i]))

\* The line differs from the row the catalog has for it.
Stale(line) ==
    /\ CatalogLookup(line.id).type = "success"
    /\ ItemUpdated(line, CatalogLookup(line.id).fetchedBook)

\* The user removes a line that differs from the catalog: handleRemoveItem.
RetryRemoveStale ==
    \E i \in 1..Len(cart.items) :
        /\ mounted
        /\ Stale(cart.items[i])
        /\ removeItem(cart.items[i].id)
        /\ SaveEffect
        /\ UNCHANGED <<authVars, pageVars, flowVars>>

NextRetry ==
    \/ PlaceOrderClick
    \/ RetrySettle
    \/ RetryJoin
    \/ OrderSettleCreated
    \/ OrderSettleRejected
    \/ RetryRemoveStale

\* Every request settles, and the user comes back to the Place Order button
\* for as long as it can be clicked.
SpecRetry ==
    /\ InitRetry
    /\ [][NextRetry]_vars
    /\ WF_vars(RetrySettle)
    /\ WF_vars(RetryJoin)
    /\ WF_vars(OrderSettleCreated \/ OrderSettleRejected)
    /\ WF_vars(PlaceOrderClick)

(***************************************************************************)
(* Properties of the cart store                                            *)
(***************************************************************************)
Min(a, b) == IF a <= b THEN a ELSE b

LinesOf(items, id) == {i \in 1..Len(items) : items[i].id = id}

RECURSIVE SumOver(_, _, _)
SumOver(items, idx, price) ==
    IF idx = {} THEN 0
    ELSE LET i == CHOOSE j \in idx : TRUE
         IN  (IF price THEN EffectivePrice(items[i]) * items[i].quantity
              ELSE items[i].quantity)
             + SumOver(items, idx \ {i}, price)

\* C1: after every cart store call, totalItems is the sum of the lines'
\* quantities and totalPrice the sum of (discountPrice if present, else price)
\* times quantity.
C1_TotalsMatchLines ==
    /\ cart.totalItems = SumOver(cart.items, DOMAIN cart.items, FALSE)
    /\ cart.totalPrice = SumOver(cart.items, DOMAIN cart.items, TRUE)

\* C1 witness: two lines, one of them discounted, after a removal-free history.
C1_Witness ==
    /\ Len(cart.items) = 2
    /\ cart.items[1].discountPrice # Undefined
    /\ cart.items[2].discountPrice = Undefined
    /\ cart.items[1].quantity > 1
    /\ cart.totalPrice = 800 * cart.items[1].quantity + 1000 * cart.items[2].quantity

\* C2: every line of every reachable cart has 1 <= quantity <= 8.
C2_QuantityInRange ==
    \A i \in 1..Len(cart.items) :
        cart.items[i].quantity >= 1 /\ cart.items[i].quantity <= MAX_LINE_QTY

\* C3: no two lines of a reachable cart have the same id.
C3_UniqueIds ==
    \A i, j \in 1..Len(cart.items) : cart.items[i].id = cart.items[j].id => i = j

\* C3 witness: an id that was added twice (its quantity exceeds what one add
\* can give) and still has one line.
C3_Witness ==
    \E i \in 1..Len(cart.items) :
        /\ cart.items[i].quantity > MaxAddQty
        /\ Cardinality(LinesOf(cart.items, cart.items[i].id)) = 1

\* C4: addItem(x, q1) followed by addItem(x, q2) leaves exactly one line for x
\* with quantity min(q1 + q2, 8).  Stated on the second add: the line of x holds
\* q1 from the first add, and the step is the reducer's ADD_ITEM of (x, q2).
C4_AddTwiceCapped ==
    [][\A x \in LineCandidates, q1 \in 1..MaxAddQty, q2 \in 1..MaxAddQty :
          ( /\ Len(cart.items) = 1
            /\ cart.items[1] = [id |-> x.id, title |-> x.title, price |-> x.price,
                                discountPrice |-> x.discountPrice, quantity |-> q1]
            /\ cart' = ReduceAddItem(cart, [id |-> x.id, title |-> x.title,
                                            price |-> x.price,
                                            discountPrice |-> x.discountPrice,
                                            quantity |-> q2]) )
          => /\ Cardinality(LinesOf(cart'.items, x.id)) = 1
             /\ cart'.items[1].quantity = Min(q1 + q2, MAX_LINE_QTY)]_vars

(***************************************************************************)
(* Properties of the checkout                                              *)
(***************************************************************************)
\* The outcome of one line as the reconciliation protocol defines it.
Classify(line, result) ==
    IF result.type = "success"
    THEN IF /\ result.fetchedBook.book_title = line.title
            /\ parseFloat(result.fetchedBook.book_price) = line.price
            /\ ParseDiscount(result.fetchedBook.discount_price) = line.discountPrice
         THEN "Unchanged"
         ELSE "Drifted"
    ELSE IF result.error.cause = "notFound" THEN "Removed" ELSE "Unverifiable"

\* The invocations whose closure and results the model still holds.
Held == {a \in 1..Len(attempts) : attempts[a].items # <<>>}
Joined == {a \in Held : attempts[a].outcome # Undefined}

OutcomeOf(a, i) == Classify(attempts[a].items[i], attempts[a].results[i])

RECURSIVE IdsWith(_, _, _)
IdsWith(a, k, outcome) ==
    IF k = 0 THEN <<>>
    ELSE IdsWith(a, k - 1, outcome)
         \o (IF OutcomeOf(a, k) = outcome THEN <<attempts[a].items[k].id>> ELSE <<>>)

Range(f) == {f[x] : x \in DOMAIN f}

\* C5: an order request is sent by a checkout attempt only if every line of
\* its snapshot was classified Unchanged in that attempt.
C5_OrderOnlyIfAllUnchanged ==
    \A k \in 1..Len(orders) :
        orders[k].attempt \in Joined =>
            \A i \in 1..Len(attempts[orders[k].attempt].items) :
                OutcomeOf(orders[k].attempt, i) = "Unchanged"

\* C5 witness: an order was sent for a two-line snapshot.
C5_Witness ==
    \E k \in 1..Len(orders) :
        /\ orders[k].attempt \in Joined
        /\ Len(attempts[orders[k].attempt].items) = 2
        /\ Len(orders[k].items) = 2

\* C6: a Place Order click without an authenticated credential launches no
\* lookup, sends no order and leaves the cart as it is.
C6_NoCredentialNoEffect ==
    [][(PlaceOrderClick /\ (~user \/ ~token))
          => (attempts' = attempts /\ orders' = orders /\ cart' = cart)]_vars

\* C6 witness: the click was answered with the sign-in modal, with a token
\* stored but no user yet, a cart to check out and no attempt started.
C6_Witness ==
    /\ isSignInModalOpen
    /\ token /\ ~user
    /\ Len(cart.items) = 2
    /\ attempts = <<>>
    /\ orders = <<>>

\* C7: when the result of a reconciliation pass arrives after the cart page
\* was closed, the cart is not mutated and no order is sent.
C7_AbandonedPassHasNoEffect ==
    [][\A a \in 1..Len(attempts) :
          ( /\ attempts[a].pc = "lookups"
            /\ ~IsLive(a)
            /\ attempts'[a].pc # "lookups" )
          => (cart' = cart /\ orders' = orders)]_vars

\* C8: every line is classified against the snapshot taken at the click; edits
\* of the live cart made while the lookups were in flight change neither the
\* pass/fail decision nor which snapshot lines are found Removed.
C8_ClassifiedAgainstSnapshot ==
    \A a \in Joined :
        /\ attempts[a].outcome[1].pass =
              (\A i \in 1..Len(attempts[a].items) : OutcomeOf(a, i) = "Unchanged")
        /\ attempts[a].outcome[1].removed =
              IdsWith(a, Len(attempts[a].items), "Removed")

\* C8 witness: a pass over two lines that joined after the live cart had been
\* edited, with a line found Removed.
C8_Witness ==
    \E a \in Joined :
        /\ attempts[a].editedAtJoin
        /\ Len(attempts[a].items) = 2
        /\ attempts[a].outcome[1].removed # <<>>

\* C9: one lookup is launched for every snapshot line, all of them at the
\* click; every lookup settles once, and at the join every line has its own
\* outcome whatever became of the other lookups: one message for each line
\* that is not Unchanged, and the Removed lines are the ones removed.
C9_FanOutFanIn ==
    \A a \in Held :
        /\ attempts[a].launched = [i \in 1..Len(attempts[a].items) |->
                                       attempts[a].items[i].id]
        /\ DOMAIN attempts[a].results = DOMAIN attempts[a].items
        /\ Range(attempts[a].arrival) =
               {i \in 1..Len(attempts[a].results) : attempts[a].results[i] # Pending}
        /\ Len(attempts[a].arrival) = Cardinality(Range(attempts[a].arrival))
        /\ a \in Joined =>
              /\ \A i \in 1..Len(attempts[a].results) : attempts[a].results[i] # Pending
              /\ Len(attempts[a].outcome[1].messages) =
                     Cardinality({i \in 1..Len(attempts[a].items) :
                                     OutcomeOf(a, i) # "Unchanged"})
              /\ Range(attempts[a].outcome[1].removed) =
                     {attempts[a].items[i].id : i \in
                         {j \in 1..Len(attempts[a].items) : OutcomeOf(a, j) = "Removed"}}

\* C9 witness: a joined pass over two lines in which one lookup failed and the
\* other line was classified on its own result.
C9_Witness ==
    \E a \in Joined :
        /\ Len(attempts[a].items) = 2
        /\ OutcomeOf(a, 1) = "Unverifiable"
        /\ OutcomeOf(a, 2) = "Drifted"
        /\ Len(attempts[a].outcome[1].messages) = 2

Perms(n) == {p \in [1..n -> 1..n] : \A i, j \in 1..n : p[i] = p[j] => i = j}

\* C10: for the snapshot and the per-line results of a pass, the decision, the
\* set of lines removed and the message list are the same for every order in
\* which the lookups can settle.
C10_SettleOrderIrrelevant ==
    \A a \in Joined :
        \A p \in Perms(Len(attempts[a].items)) :
            LET v == RunValidation(attempts[a].items, attempts[a].results, p)
            IN  /\ v.needsUpdate = ~attempts[a].outcome[1].pass
                /\ Range(v.remove) = Range(attempts[a].outcome[1].removed)
                /\ v.messages = attempts[a].outcome[1].messages

\* C10 witness: the second line's lookup settled first, and both lines have a
\* message, of different kinds.
C10_Witness ==
    \E a \in Joined :
        /\ attempts[a].arrival = <<2, 1>>
        /\ Len(attempts[a].outcome[1].messages) = 2
        /\ attempts[a].outcome[1].messages[1].kind = "removed"
        /\ attempts[a].outcome[1].messages[2].kind = "updated"

(***************************************************************************)
(* Properties of a failed reconciliation pass                              *)
(***************************************************************************)
\* The outcome of every snapshot line of an invocation record.
OutcomesOf(rec) ==
    [i \in 1..Len(rec.items) |-> Classify(rec.items[i], rec.results[i])]

\* The ids of the snapshot lines of rec whose outcome is one of `outcomes`.
IdsOf(rec, outcomes) ==
    {rec.items[i].id : i \in {j \in 1..Len(rec.items) : OutcomesOf(rec)[j] \in outcomes}}

\* The lines of items whose id is not in ids, in their order.
Keep(items, ids) ==
    LET Stays(item) == item.id \notin ids
    IN  SelectSeq(items, Stays)

\* The step in which the pass of invocation a ends with discrepancies: the
\* invocation was waiting for its lookups and has returned after the step.
FailedJoin(a) ==
    /\ attempts[a].pc = "lookups"
    /\ attempts'[a].pc = "done"

\* C11: when a pass fails, every line classified Removed is deleted from the
\* live cart before the attempt returns, and no line with another outcome is
\* deleted: the cart after the step is the cart before it without the lines
\* of the Removed ids.
C11_RemovedLinesDeleted ==
    [][\A a \in 1..Len(attempts) :
          FailedJoin(a) =>
              cart'.items = Keep(cart.items, IdsOf(attempts'[a], {"Removed"}))]_vars

\* C11 witness: a returned pass over two lines found the first Removed and the
\* second Drifted, and the cart holds the second line only.
C11_Witness ==
    \E a \in Joined :
        /\ attempts[a].pc = "done"
        /\ Len(attempts[a].items) = 2
        /\ OutcomeOf(a, 1) = "Removed"
        /\ OutcomeOf(a, 2) = "Drifted"
        /\ cart.items = <<attempts[a].items[2]>>

\* C12: a pass never modifies a line classified Drifted or Unverifiable: every
\* such line that is in the cart when the pass ends is in the cart afterwards
\* with the same title, price, discountPrice and quantity, and when the cart
\* was not edited during the pass that is the line of the snapshot.
C12_FlaggedLinesUntouched ==
    [][\A a \in 1..Len(attempts) :
          FailedJoin(a) =>
              \A i \in 1..Len(attempts'[a].items) :
                  OutcomesOf(attempts'[a])[i] \in {"Drifted", "Unverifiable"} =>
                      /\ \A k \in 1..Len(cart.items) :
                             cart.items[k].id = attempts'[a].items[i].id =>
                                 \E n \in 1..Len(cart'.items) :
                                     cart'.items[n] = cart.items[k]
                      /\ ~attempts'[a].editedAtJoin =>
                             \E n \in 1..Len(cart'.items) :
                                 cart'.items[n] = attempts'[a].items[i]]_vars

\* C12 witness: a returned pass over two lines found the first Unverifiable
\* and the second Removed, and the cart holds the first line as it was.
C12_Witness ==
    \E a \in Joined :
        /\ attempts[a].pc = "done"
        /\ ~attempts[a].editedAtJoin
        /\ Len(attempts[a].items) = 2
        /\ OutcomeOf(a, 1) = "Unverifiable"
        /\ OutcomeOf(a, 2) = "Removed"
        /\ attempts[a].items[1].quantity = 2
        /\ cart.items = <<attempts[a].items[1]>>

(***************************************************************************)
(* Properties of the classification                                        *)
(***************************************************************************)
\* The snapshot lines that are not Unchanged, in snapshot order.
RECURSIVE FlaggedLines(_, _)
FlaggedLines(rec, k) ==
    IF k = 0 THEN <<>>
    ELSE FlaggedLines(rec, k - 1)
         \o (IF OutcomesOf(rec)[k] = "Unchanged" THEN <<>> ELSE <<k>>)

\* The kind of message each outcome is reported with.
KindFor(outcome) ==
    CASE outcome = "Drifted" -> "updated"
      [] outcome = "Removed" -> "removed"
      [] outcome = "Unverifiable" -> "unverified"

\* C13: a failed pass returns exactly one message for each line that is
\* Drifted, Removed or Unverifiable and none for an Unchanged line, in the
\* order of the lines in the snapshot; the list is what the page is given.
C13_OneMessagePerFlaggedLine ==
    \A a \in Joined :
        ~attempts[a].outcome[1].pass =>
            LET rec == attempts[a]
                flagged == FlaggedLines(rec, Len(rec.items))
                messages == rec.outcome[1].messages
            IN  /\ Len(messages) = Len(flagged)
                /\ \A n \in 1..Len(flagged) :
                       /\ messages[n].kind = KindFor(OutcomesOf(rec)[flagged[n]])
                       /\ messages[n].title = rec.items[flagged[n]].title
                /\ updateDialogMessages = messages

\* C13 witness: the second lookup settled first; the first line (title Z) is
\* Unverifiable and the second (title A) Drifted, and the two messages are in
\* that order.
C13_Witness ==
    \E a \in Joined :
        /\ attempts[a].arrival = <<2, 1>>
        /\ attempts[a].items[1].title = "Z"
        /\ attempts[a].items[2].title = "A"
        /\ OutcomeOf(a, 1) = "Unverifiable"
        /\ OutcomeOf(a, 2) = "Drifted"
        /\ Len(updateDialogMessages) = 2
        /\ updateDialogMessages[1].title = "Z"
        /\ updateDialogMessages[2].kind = "updated"

\* C14: a line whose lookup succeeded is Unchanged (no message, nothing that
\* blocks the order) exactly when the fetched title, unit price and discount
\* price all equal the cached values of the snapshot line; when any of the
\* three differs it is Drifted (one "updated" message, the order is blocked).
C14_UnchangedIffAllEqual ==
    \A a \in Joined :
        \A i \in 1..Len(attempts[a].items) :
            LET line == attempts[a].items[i]
                result == attempts[a].results[i]
                one == ForEachResult(line, result)
                allEqual ==
                    /\ result.fetchedBook.book_title = line.title
                    /\ parseFloat(result.fetchedBook.book_price) = line.price
                    /\ ParseDiscount(result.fetchedBook.discount_price) = line.discountPrice
            IN  result.type = "success" =>
                    IF allEqual
                    THEN /\ one.messages = <<>>
                         /\ ~one.needsUpdate
                         /\ Len(attempts[a].items) = 1 => attempts[a].outcome[1].pass
                    ELSE /\ Len(one.messages) = 1
                         /\ one.messages[1].kind = "updated"
                         /\ one.needsUpdate
                         /\ ~attempts[a].outcome[1].pass

\* C14 witness: of two lines whose lookups succeeded, the first has the three
\* fields as cached and the second differs in the sale price alone; the pass
\* failed with the one message of the second line.
C14_Witness ==
    \E a \in Joined :
        /\ Len(attempts[a].items) = 2
        /\ attempts[a].results[1].type = "success"
        /\ attempts[a].results[2].type = "success"
        /\ OutcomeOf(a, 1) = "Unchanged"
        /\ attempts[a].items[2].title = attempts[a].results[2].fetchedBook.book_title
        /\ attempts[a].items[2].price = 1000
        /\ attempts[a].results[2].fetchedBook.book_price = "10.00"
        /\ attempts[a].items[2].discountPrice = Some(800)
        /\ attempts[a].results[2].fetchedBook.discount_price = Some("9.00")
        /\ ~attempts[a].outcome[1].pass
        /\ Len(attempts[a].outcome[1].messages) = 1
        /\ attempts[a].outcome[1].messages[1].reasons = << <<"Sale price changed", 800, 900>> >>

OrderOf(a) == orders[CHOOSE k \in 1..Len(orders) : orders[k].attempt = a]

\* C16: when the pass succeeded and the order request succeeds, the request
\* holds one pair of item id and quantity for every line of the cart the
\* attempt was started on, and nothing else (no price), and the cart is empty
\* afterwards: no lines, totalItems 0, totalPrice 0.
C16_OrderPairsThenEmptyCart ==
    [][\A a \in 1..Len(attempts) :
          (attempts[a].pc = "order" /\ attempts'[a].pc = "done") =>
              /\ Len(OrderOf(a).items) = Len(attempts[a].items)
              /\ \A i \in 1..Len(attempts[a].items) :
                     /\ DOMAIN OrderOf(a).items[i] = {"book_id", "quantity"}
                     /\ OrderOf(a).items[i].book_id = attempts[a].items[i].id
                     /\ OrderOf(a).items[i].quantity = attempts[a].items[i].quantity
              /\ cart'.items = <<>>
              /\ cart'.totalItems = 0
              /\ cart'.totalPrice = 0]_vars

\* C16 witness: the order of a two-line cart, one line with quantity 2, was
\* accepted; the success dialog is shown and the cart is empty.
C16_Witness ==
    \E a \in Joined :
        /\ attempts[a].pc = "done"
        /\ attempts[a].outcome[1].pass
        /\ Len(attempts[a].items) = 2
        /\ attempts[a].items[2].quantity = 2
        /\ OrderOf(a).items = << [book_id |-> attempts[a].items[1].id, quantity |-> 1],
                                  [book_id |-> attempts[a].items[2].id, quantity |-> 2] >>
        /\ showSuccessDialog
        /\ cart = initialState

\* C17: when the order request fails the cart is as it was before the request
\* was sent: neither the step that sends the request nor the step that handles
\* its failure changes the cart.
C17_FailedOrderKeepsCart ==
    [][\A a \in 1..Len(attempts) :
          ( \/ (attempts[a].pc = "lookups" /\ attempts'[a].pc = "order")
            \/ (attempts[a].pc = "order" /\ attempts'[a].pc = "failed") )
          => cart' = cart]_vars

\* C17 witness: the order of a two-line cart was rejected; the error is shown
\* and the cart holds the two lines of the snapshot.
C17_Witness ==
    \E a \in Held :
        /\ attempts[a].pc = "failed"
        /\ orderError # Undefined
        /\ Len(attempts[a].items) = 2
        /\ cart = WithTotals(attempts[a].items)

\* The message the precedence gives for a caught error: the first field
\* error of a field-error list; else the friendlier text of a known conflict;
\* else the generic string of the body (detail, then message); else the
\* fallback.
KnownConflict(s) == s = "User has already reviewed this book"

PrecedenceMessage(error) ==
    LET fallback == Text("Failed to place order. Please try again.")
    IN  IF error.response = Undefined \/ ~error.response[1].json
        THEN fallback
        ELSE LET body == error.response[1]
             IN  IF body.detail # Undefined /\ body.detail[1].type = "array"
                 THEN LET firstError == body.detail[1].value[1]
                      IN  InputError(firstError.loc[Len(firstError.loc)], firstError.msg)
                 ELSE IF body.detail # Undefined /\ KnownConflict(body.detail[1].value)
                 THEN Text("You have already submitted a review for this book.")
                 ELSE IF body.detail # Undefined
                 THEN Text(body.detail[1].value)
                 ELSE IF body.message # Undefined
                 THEN Text(body.message[1])
                 ELSE fallback

\* C18: a failed order submission shows exactly one message, chosen by the
\* precedence: field-error list, known business conflict, generic message of
\* the body, default fallback.
C18_OrderErrorPrecedence ==
    [][\A a \in 1..Len(attempts) :
          (attempts[a].pc = "order" /\ attempts'[a].pc = "failed" /\ IsLive(a)) =>
              orderError' = Some(PrecedenceMessage(attempts'[a].caught[1]))]_vars

(***************************************************************************)
(* Properties of updateQuantity                                            *)
(***************************************************************************)
\* The store's state after updateQuantity(id, q), and after removeItem(id).
AfterUpdateQuantity(id, q) ==
    cartReducer(cart, [type |-> "UPDATE_QUANTITY",
                       payload |-> [id |-> id, quantity |-> q]])

AfterRemoveItem(id) ==
    cartReducer(cart, [type |-> "REMOVE_ITEM", payload |-> [id |-> id]])

\* C19: for every q <= 0 and every id, updateQuantity(id, q) leaves the cart
\* in the state removeItem(id) leaves it in: no line of id, every other line
\* as it was and where it was.
C19_NonPositiveUpdateRemoves ==
    \A id \in ItemIds, q \in (0 - NegUpdQty)..0 :
        /\ AfterUpdateQuantity(id, q) = AfterRemoveItem(id)
        /\ LinesOf(AfterUpdateQuantity(id, q).items, id) = {}
        /\ AfterUpdateQuantity(id, q).items = Keep(cart.items, {id})

\* C19 witness: a cart of two lines of several copies each, from which
\* updateQuantity of the first line's id with 0, and with the lowest quantity
\* explored, leaves the second line alone.
C19_Witness ==
    /\ Len(cart.items) = 2
    /\ cart.items[1].quantity > 1
    /\ cart.items[2].quantity > 1
    /\ AfterUpdateQuantity(cart.items[1].id, 0) = WithTotals(<<cart.items[2]>>)
    /\ AfterUpdateQuantity(cart.items[1].id, 0 - NegUpdQty) = WithTotals(<<cart.items[2]>>)

\* C20: for every id in the cart and every q > 8, updateQuantity(id, q) sets
\* the quantity of the line of id to 8.
C20_UpdateClampsToMax ==
    \A i \in 1..Len(cart.items), q \in (MAX_LINE_QTY + 1)..MaxUpdQty :
        AfterUpdateQuantity(cart.items[i].id, q).items[i].quantity = MAX_LINE_QTY

(***************************************************************************)
(* Properties of the persistence                                           *)
(***************************************************************************)
\* The stored record is absent, or is not the text of a cart state.
NoStoredCart == storage = Undefined \/ storage[1].kind # "cart"

\* C21: load never raises, and returns the empty cart state when the stored
\* record is absent, not parseable, or parses to a value that is no CartState.
\* Stated on the step in which the application starts and loads.
C21_LoadNeverRaises ==
    [][(app = "down" /\ app' # "down") =>
          /\ ~loadCartFromLocalStorage.threw
          /\ NoStoredCart =>
                 /\ loadCartFromLocalStorage.isCartState
                 /\ loadCartFromLocalStorage.state = initialState]_vars

\* C22: a storage write that fails in save is not surfaced: the mutation that
\* triggered it is in the in-memory state and the application goes on.  A
\* step of the running store that changes the cart and leaves the stored
\* record as it was is a step whose write failed.
C22_FailedSaveNotSurfaced ==
    [][(app = "up" /\ cart' # cart /\ storage' = storage) => app' = "up"]_vars

\* C23: for every cart state the store operations reach, saving it and then
\* loading gives a state equal to it: same lines in the same order with the
\* same fields, same totalItems and totalPrice.
C23_SaveLoadRoundTrip ==
    /\ storage = Some(JSONstringify(cart))
    /\ loadCartFromLocalStorage =
           [threw |-> FALSE, isCartState |-> TRUE, state |-> cart]

\* C23 witness: a saved cart of two lines, the first with a discountPrice and
\* the second without (its stored object has no such key).
C23_Witness ==
    /\ Len(cart.items) = 2
    /\ cart.items[1].discountPrice = Some(800)
    /\ cart.items[2].discountPrice = Undefined
    /\ cart.items[2].quantity > 1
    /\ storage # Undefined
    /\ storage[1].kind = "cart"
    /\ "discountPrice" \in DOMAIN storage[1].value[1].items[1]
    /\ "discountPrice" \notin DOMAIN storage[1].value[1].items[2]
    /\ loadCartFromLocalStorage.state = cart

\* C24: after every operation that changes the cart the new state has been
\* handed to persistence: the stored record is the text of the in-memory
\* cart state, also after clearCart and after the removals of a
\* reconciliation pass.
C24_StoredCartIsCurrent ==
    /\ app = "up"
    /\ storage = Some(JSONstringify(cart))

\* C24 witness: a pass has removed a line, and the stored record is the
\* one-line cart that is left.
C24_Witness ==
    \E a \in Joined :
        /\ attempts[a].outcome[1].removed # <<>>
        /\ Len(attempts[a].items) = 2
        /\ Len(cart.items) = 1
        /\ Len(storage[1].value[1].items) = 1
        /\ storage[1].value[1].items[1].id = cart.items[1].id
        /\ storage[1].value[1].totalItems = cart.totalItems

(***************************************************************************)
(* Properties of the order of the lines                                    *)
(***************************************************************************)
\* The store's state after addItem(item, q).
AfterAddItem(item, q) ==
    cartReducer(cart, [type |-> "ADD_ITEM",
                       payload |-> [id |-> item.id, title |-> item.title,
                                    price |-> item.price,
                                    discountPrice |-> item.discountPrice,
                                    quantity |-> q]])

\* after has the lines of before at the same positions, and differs from
\* before in nothing but the quantity of the line of id.
SameButQuantityOf(before, after, id) ==
    /\ Len(after) = Len(before)
    /\ \A i \in 1..Len(before) :
           IF before[i].id = id
           THEN after[i] = [before[i] EXCEPT !.quantity = after[i].quantity]
           ELSE after[i] = before[i]

\* C25: the lines stay in the order in which they were created. addItem of
\* an id that is not in the cart puts its line after all the others;
\* addItem of an id that is in the cart and updateQuantity with a positive
\* quantity change the quantity of that line where it is and nothing else;
\* removeItem leaves the other lines in the order they had.
C25_LineOrderIsCreationOrder ==
    /\ \A item \in ThreeCandidates, q \in ThreeQuantities :
           IF LinesOf(cart.items, item.id) = {}
           THEN /\ Len(AfterAddItem(item, q).items) = Len(cart.items) + 1
                /\ SubSeq(AfterAddItem(item, q).items, 1, Len(cart.items)) = cart.items
                /\ AfterAddItem(item, q).items[Len(cart.items) + 1].id = item.id
           ELSE SameButQuantityOf(cart.items, AfterAddItem(item, q).items, item.id)
    /\ \A id \in ThreeIds, q \in ThreeQuantities :
           SameButQuantityOf(cart.items, AfterUpdateQuantity(id, q).items, id)
    /\ \A id \in ThreeIds :
           AfterRemoveItem(id).items = Keep(cart.items, {id})

\* C25 witness: three lines created in an order that is not the order of
\* their ids, the first of which has received a second copy since; removing
\* the middle line leaves the first and the last in that order, and one more
\* copy of the last line leaves it last.
C25_Witness ==
    /\ Len(cart.items) = 3
    /\ cart.items[1].id > cart.items[2].id
    /\ cart.items[2].id < cart.items[3].id
    /\ cart.items[1].quantity = 2
    /\ cart.items[3].quantity = 1
    /\ AfterRemoveItem(cart.items[2].id).items = <<cart.items[1], cart.items[3]>>
    /\ AfterAddItem(cart.items[3], 1).items =
           <<cart.items[1], cart.items[2], [cart.items[3] EXCEPT !.quantity = 2]>>

(***************************************************************************)
(* Properties of the product page's add                                    *)
(***************************************************************************)
\* C26: an add from the product page whose quantity, together with the
\* quantity of that book already in the cart, is more than 8 leaves the cart
\* as it was; and no line of a cart filled from the product page ever has
\* more than 8 copies.
C26_AddBeyondLimitRejected ==
    /\ [](\A i \in 1..Len(cart.items) : cart.items[i].quantity <= MAX_LINE_QTY)
    /\ [][\A id \in ItemIds, book \in ShownVersions, quantity \in ProductQuantities :
             (getItemQuantity(id) + quantity > MAX_LINE_QTY
              /\ handleAddToCart(id, book, quantity)) => cart' = cart]_vars

\* C26 witness: one line filled to 8, for which every further add is over the
\* limit, and a second line of 5 for which an add of 4 is over it and an add
\* of 3 is not.
C26_Witness ==
    /\ Len(cart.items) = 2
    /\ cart.items[1].quantity = MAX_LINE_QTY
    /\ cart.items[2].quantity = 5
    /\ getItemQuantity(cart.items[1].id) + 1 > MAX_LINE_QTY
    /\ getItemQuantity(cart.items[2].id) + 4 > MAX_LINE_QTY
    /\ getItemQuantity(cart.items[2].id) + 3 <= MAX_LINE_QTY

(***************************************************************************)
(* Properties of the checkout attempts                                     *)
(***************************************************************************)
\* The invocations of handlePlaceOrder that have not returned: their
\* lookups, or their order request, are pending.
InFlight == {a \in 1..Len(attempts) : ~Returned(attempts[a])}

\* C27: at most one checkout attempt is in flight at a time: while the
\* lookups or the order request of one attempt are pending no second pass is
\* started and no second order request is sent.
C27_OneAttemptInFlight == Cardinality(InFlight) <= 1

\* C28: every checkout attempt whose requests settle is followed by a state
\* of the cart page in which isCheckingCart and isPlacingOrder are both
\* false, whichever way the attempt ends.
C28_AttemptEndsIdle ==
    (InFlight # {}) ~> (~isCheckingCart /\ ~isPlacingOrder)

\* C29: the order request of an attempt whose pass succeeded holds the
\* (id, quantity) pairs of the lines that were looked up and found unchanged
\* in that attempt, in their order, whatever the cart holds when the request
\* is sent.  Stated on the step in which the request is sent.
C29_OrderIsValidatedSnapshot ==
    [][\A a \in 1..Len(attempts) :
          (attempts[a].pc = "lookups" /\ attempts'[a].pc = "order") =>
              /\ Len(orders') = Len(orders) + 1
              /\ orders'[Len(orders')].attempt = a
              /\ LET sent == orders'[Len(orders')].items
                     snapshot == attempts[a].items
                 IN  /\ Len(sent) = Len(snapshot)
                     /\ \A i \in 1..Len(snapshot) :
                            /\ sent[i].book_id = snapshot[i].id
                            /\ sent[i].quantity = snapshot[i].quantity
                            /\ sent[i].book_id = attempts[a].launched[i]
                            /\ Classify(snapshot[i], attempts'[a].results[i]) = "Unchanged"]_vars

\* C29 witness: an order request is pending that was sent after the cart had
\* been edited in flight; it holds the pairs of the lines the attempt was
\* started on, which are not the pairs of the cart.
C29_Witness ==
    \E a \in Joined :
        /\ attempts[a].pc = "order"
        /\ attempts[a].editedAtJoin
        /\ OrderOf(a).items =
               [i \in 1..Len(attempts[a].items) |->
                   [book_id |-> attempts[a].items[i].id,
                    quantity |-> attempts[a].items[i].quantity]]
        /\ cart.items # <<>>
        /\ \/ Len(cart.items) # Len(OrderOf(a).items)
           \/ \E i \in 1..Len(cart.items) :
                  \/ cart.items[i].id # OrderOf(a).items[i].book_id
                  \/ cart.items[i].quantity # OrderOf(a).items[i].quantity

(***************************************************************************)
(* Properties of retried checkouts                                         *)
(***************************************************************************)
\* The cart holds a line that a lookup would find Drifted.
HasDrifted ==
    \E i \in 1..Len(cart.items) :
        Classify(cart.items[i], CatalogLookup(cart.items[i].id)) = "Drifted"

\* Invocation a is the latest one, its pass has failed, every line of it was
\* Unchanged or Removed, and lines are left in the cart.
FailedOnRemovedOnly(a) ==
    /\ Len(attempts) = a
    /\ attempts[a].pc = "done"
    /\ attempts[a].outcome # Undefined
    /\ ~attempts[a].outcome[1].pass
    /\ Range(OutcomesOf(attempts[a])) \subseteq {"Unchanged", "Removed"}
    /\ cart.items # <<>>

\* The invocation after a has passed its validation and sent its order.
NextPasses(a) ==
    /\ Len(attempts) > a
    /\ attempts[a + 1].pc = "order"
    /\ attempts[a + 1].outcome[1].pass

\* C30: with a catalog that does not change, (1) after a pass that failed
\* only because of Removed lines the next attempt passes, and (2) for as long
\* as the cart holds a Drifted line no attempt passes, so no order is sent
\* before the user has removed that line.
C30_RetryAfterReconciliation ==
    /\ \A a \in 1..(MaxAttempts - 1) : FailedOnRemovedOnly(a) ~> NextPasses(a)
    /\ [](HasDrifted => orders = <<>>)

\* C30 witness: the second attempt has passed on the two lines that the
\* first, failed pass left in the cart; the third line of the first pass was
\* the deleted book.
C30_Witness ==
    /\ Len(attempts) = 2
    /\ attempts[1].pc = "done"
    /\ attempts[2].pc = "order"
    /\ attempts[2].outcome[1].pass
    /\ Len(attempts[2].items) = 2
    /\ {attempts[2].items[1].id, attempts[2].items[2].id} = {1, 3}
    /\ cart.items = attempts[2].items
    /\ Len(orders) = 1

====
